---- MODULE Spec2Model ----
(***************************************************************************)
(* Libermoto pricing calculator (src/src/App.tsx): the App component's     *)
(* state (inputs, memoised derived prices, history), its mount effects     *)
(* (load from / persist to localStorage) and its event handlers.           *)
(*                                                                         *)
(* Numbers.  A JavaScript number is modelled as a pair <<n, d>>: the exact *)
(* rational n/d in lowest terms when d > 0, and the non-finite values      *)
(* Infinity <<1,0>>, -Infinity <<-1,0>> and NaN <<0,0>> when d = 0.        *)
(* Rounding of binary floating point is not modelled.                      *)
(* Time.  Date.getTime() is counted in hours instead of milliseconds (a    *)
(* date-only string parses to UTC midnight, a multiple of a day).          *)
(***************************************************************************)
EXTENDS Integers, Sequences, FiniteSets, TLC

VARIABLES
    inputs,     \* useState<Inputs>                                (l.58)
    memo,       \* the useMemo cells of the last render            (l.113-128)
    history,    \* useState<HistoryItem[]>, a JS value             (l.72)
    pending,    \* setHistory updates queued during the mount effects
    effects,    \* mount/commit effects still to run, in order
    phase,      \* "mounting" | "ready" | "crashed"
    storage,    \* localStorage[STORAGE_KEY]
    now,        \* the clock read by Date.now()
    nextId,     \* number of ids crypto.randomUUID() has handed out
    op,         \* the last handler that ran, with its argument
    storage0,   \* the stored text the page was opened on, kept until the
                \* first handler runs (Absent from then on)
    saved       \* id of a stored item -> the inputs current when it was saved

vars == <<inputs, memo, history, pending, effects, phase, storage, now,
          nextId, op, storage0, saved>>

---------------------------------------------------------------------------
(* Bounds of the model *)

MaxSaves == 2
MaxClock == 1

---------------------------------------------------------------------------
(* JavaScript numbers *)

Abs(n) == IF n < 0 THEN -n ELSE n
Sgn(n) == IF n > 0 THEN 1 ELSE IF n < 0 THEN -1 ELSE 0

RECURSIVE Gcd(_, _)
Gcd(a, b) == IF b = 0 THEN a ELSE Gcd(b, a % b)

\* n/d (d # 0) in lowest terms with a positive denominator
Norm(n, d) ==
    LET g == Gcd(Abs(n), Abs(d))
        s == IF d < 0 THEN -1 ELSE 1
    IN  <<(s * n) \div g, (s * d) \div g>>

R(n) == <<n, 1>>
NaN == <<0, 0>>
IsFinite(x) == x[2] # 0

Mul(a, b) ==
    IF IsFinite(a) /\ IsFinite(b)
    THEN LET g1 == Gcd(Abs(a[1]), b[2])
             g2 == Gcd(Abs(b[1]), a[2])
         IN  IF a[1] = 0 \/ b[1] = 0 THEN R(0)
             ELSE <<(a[1] \div g1) * (b[1] \div g2),
                    (a[2] \div g2) * (b[2] \div g1)>>
    ELSE <<Sgn(a[1]) * Sgn(b[1]), 0>>

Add(a, b) ==
    IF IsFinite(a) /\ IsFinite(b)
    THEN Norm(a[1] * b[2] + b[1] * a[2], a[2] * b[2])
    ELSE IF IsFinite(a) THEN b
    ELSE IF IsFinite(b) THEN a
    ELSE IF a = b THEN a ELSE NaN

Neg(a) == <<-a[1], a[2]>>
Sub(a, b) == Add(a, Neg(b))

\* a / b as IEEE division: x/0 is +-Infinity, 0/0 is NaN
Div(a, b) ==
    IF IsFinite(b) /\ b[1] # 0
    THEN Mul(a, Norm(b[2], b[1]))
    ELSE IF IsFinite(b) THEN <<Sgn(a[1]), 0>>
    ELSE IF IsFinite(a) /\ b # NaN THEN R(0)
    ELSE NaN

\* a > 0 (false for NaN)
GtZero(a) == a[1] > 0

---------------------------------------------------------------------------
(* Dates and nullable numbers *)

NoDate == [kind |-> "empty", day |-> 0]        \* ""
BadDate == [kind |-> "invalid", day |-> 0]     \* a string Date cannot parse
IsoDate(n) == [kind |-> "iso", day |-> n]      \* "YYYY-MM-DD", day n

Null == [null |-> TRUE, n |-> 0]
Some(n) == [null |-> FALSE, n |-> n]

HoursPerDay == 24

\* new Date(d).getTime(), in hours; Null stands for NaN
GetTime(d) == IF d.kind = "iso" THEN Some(d.day * HoursPerDay) ELSE Null

\* Math.round(n / d) for d > 0: to the nearest integer, halves upwards
MathRound(n, d) == (2 * n + d) \div (2 * d)

diffInDays(d1, d2) ==
    IF d1.kind = "empty" \/ d2.kind = "empty" THEN Null
    ELSE LET t1 == GetTime(d1)
             t2 == GetTime(d2)
         IN  IF t1.null \/ t2.null THEN Null
             ELSE Some(MathRound(t2.n - t1.n, HoursPerDay))

---------------------------------------------------------------------------
(* DEFAULTS and the factor resolvers *)

marginTarget == <<1, 4>>

seasonFactor == [bassa |-> R(1), alta |-> <<13, 10>>]

leadTimeRules ==
    << [maxDays |-> 14, factor |-> <<11, 10>>],
       [maxDays |-> 30, factor |-> <<21, 20>>],
       [maxDays |-> 90, factor |-> R(1)],
       [maxDays |-> 9999, factor |-> <<97, 100>>] >>

groupRules ==
    << [max |-> 6, factor |-> <<11, 10>>],
       [max |-> 12, factor |-> R(1)],
       [max |-> 9999, factor |-> <<19, 20>>] >>

RECURSIVE FirstLeadRule(_, _)
FirstLeadRule(lt, i) ==
    IF i > Len(leadTimeRules) THEN R(1)
    ELSE IF lt <= leadTimeRules[i].maxDays THEN leadTimeRules[i].factor
    ELSE FirstLeadRule(lt, i + 1)

pickFactorByLeadTime(lt) ==
    IF lt.null THEN R(1) ELSE FirstLeadRule(lt.n, 1)

RECURSIVE FirstGroupRule(_, _)
FirstGroupRule(x, i) ==
    IF i > Len(groupRules) THEN R(1)
    ELSE IF x <= groupRules[i].max THEN groupRules[i].factor
    ELSE FirstGroupRule(x, i + 1)

pickFactorByGroup(n) ==
    LET x == IF n > 0 THEN n ELSE 0
    IN  FirstGroupRule(x, 1)

---------------------------------------------------------------------------
(* The render: derived values, memoised on their dependency lists *)

EmptyCell == [deps |-> <<>>, val |-> NaN]

EmptyMemo ==
    [leadTime |-> EmptyCell, costsTotal |-> EmptyCell,
     prezzoBasePP |-> EmptyCell, prezzoConsPP |-> EmptyCell,
     ricaviTotali |-> EmptyCell, margineAss |-> EmptyCell,
     marginePerc |-> EmptyCell]

\* A useMemo whose value is computed on the first render only
UseMemoOnce(cell, deps, val) ==
    IF cell.deps # <<>> THEN cell ELSE [deps |-> deps, val |-> val]

\* useMemo(() => val, deps): recomputed only when a dependency changed
UseMemo(cell, deps, val) ==
    IF cell.deps = deps THEN cell ELSE [deps |-> deps, val |-> val]

\* leadTime ?? 0
OrZero(lt) == IF lt.null THEN Some(0) ELSE lt

fLeadOf(leadTime) == pickFactorByLeadTime(OrZero(leadTime))

\* The base price with a guard that lets motoN = 0 through
prezzoBasePPLooseGuard(costsTotal, margineTarget, motoN) ==
    IF motoN < 0 THEN R(0)
    ELSE Div(Mul(costsTotal, Add(R(1), margineTarget)), R(motoN))

prezzoBasePPOf(costsTotal, margineTarget, motoN) ==
    IF motoN <= 0 THEN R(0)
    ELSE Div(Mul(costsTotal, Add(R(1), margineTarget)), R(motoN))

Render(inp, prev) ==
    LET leadTime ==
            UseMemo(prev.leadTime,
                    <<inp.dataPrenotazione, inp.dataPartenza>>,
                    diffInDays(inp.dataPrenotazione, inp.dataPartenza))
        costsTotal ==
            UseMemo(prev.costsTotal,
                    <<inp.cTrasporto, inp.cAlloggio, inp.cGuide, inp.cAltri>>,
                    R(inp.cTrasporto + inp.cAlloggio + inp.cGuide + inp.cAltri))
        fStagione == seasonFactor[inp.stagione]
        fLead == fLeadOf(leadTime.val)
        fGroup == pickFactorByGroup(inp.motoN)
        prezzoBasePP ==
            UseMemo(prev.prezzoBasePP,
                    <<costsTotal.val, inp.margineTarget, inp.motoN>>,
                    prezzoBasePPOf(costsTotal.val, inp.margineTarget, inp.motoN))
        prezzoConsPP ==
            UseMemo(prev.prezzoConsPP,
                    <<prezzoBasePP.val, fStagione, fLead, fGroup>>,
                    Mul(Mul(Mul(prezzoBasePP.val, fStagione), fLead), fGroup))
        ricaviTotali ==
            UseMemo(prev.ricaviTotali,
                    <<inp.motoN, prezzoConsPP.val>>,
                    Mul(R(inp.motoN), prezzoConsPP.val))
        margineAss ==
            UseMemo(prev.margineAss,
                    <<ricaviTotali.val, costsTotal.val>>,
                    Sub(ricaviTotali.val, costsTotal.val))
        marginePerc ==
            UseMemo(prev.marginePerc,
                    <<margineAss.val, ricaviTotali.val>>,
                    IF GtZero(ricaviTotali.val)
                    THEN Div(margineAss.val, ricaviTotali.val)
                    ELSE R(0))
    IN  [leadTime |-> leadTime, costsTotal |-> costsTotal,
         prezzoBasePP |-> prezzoBasePP, prezzoConsPP |-> prezzoConsPP,
         ricaviTotali |-> ricaviTotali, margineAss |-> margineAss,
         marginePerc |-> marginePerc]

\* The Result object of a render
ResultOf(m) ==
    [prezzoBasePP |-> m.prezzoBasePP.val, prezzoConsPP |-> m.prezzoConsPP.val,
     ricaviTotali |-> m.ricaviTotali.val, margineAss |-> m.margineAss.val,
     marginePerc |-> m.marginePerc.val]

InitialInputs ==
    [destinazione |-> <<>>, durataGiorni |-> 7, stagione |-> "alta",
     motoN |-> 12, dataPrenotazione |-> NoDate, dataPartenza |-> NoDate,
     cTrasporto |-> 0, cAlloggio |-> 0, cGuide |-> 0, cAltri |-> 0,
     margineTarget |-> marginTarget]

---------------------------------------------------------------------------
(* JS values held by the history state, and their JSON text *)

JsArray(items) == [type |-> "array", items |-> items]     \* HistoryItem[]
JsNull == [type |-> "null", items |-> <<>>]               \* null
JsObject == [type |-> "object", items |-> <<>>]           \* {}
JsOtherArray == [type |-> "otherArray", items |-> <<>>]   \* e.g. [1]

\* What the render at l.270-285 needs: an array whose items are HistoryItems
IsHistoryList(v) == v.type = "array"

\* JSON has no NaN or Infinity: JSON.stringify writes them as null
JsonNull == <<0, -1>>
NumToJson(x) == IF IsFinite(x) THEN x ELSE JsonNull

ItemToJson(it) ==
    [id |-> it.id, title |-> it.title, timestamp |-> it.timestamp,
     inputs |-> [it.inputs EXCEPT !.margineTarget = NumToJson(@)],
     result |-> [k \in DOMAIN it.result |-> NumToJson(it.result[k])]]

Absent == [kind |-> "absent", doc |-> JsNull]         \* getItem gives null
EmptyText == [kind |-> "empty", doc |-> JsNull]       \* ""
Malformed == [kind |-> "malformed", doc |-> JsNull]   \* not JSON, e.g. "[{"
JsonText(doc) == [kind |-> "json", doc |-> doc]

\* JSON.stringify(v)
Stringify(v) ==
    IF v.type = "array"
    THEN JsonText(JsArray([i \in 1..Len(v.items) |-> ItemToJson(v.items[i])]))
    ELSE JsonText(v)

\* JSON.parse(raw): the value, or a SyntaxError
Parse(raw) ==
    IF raw.kind = "json" THEN [ok |-> TRUE, value |-> raw.doc]
    ELSE [ok |-> FALSE, value |-> JsNull]

\* if (raw): null and "" are falsy
Truthy(raw) == raw.kind \notin {"absent", "empty"}

---------------------------------------------------------------------------
(* History items *)

RECURSIVE TrimStart(_)
TrimStart(s) ==
    IF s # <<>> /\ Head(s) = " " THEN TrimStart(Tail(s)) ELSE s

RECURSIVE TrimEnd(_)
TrimEnd(s) ==
    IF s # <<>> /\ s[Len(s)] = " " THEN TrimEnd(SubSeq(s, 1, Len(s) - 1)) ELSE s

Trim(s) == TrimEnd(TrimStart(s))

\* `Viaggio ${date} (${motoN} moto)`
AutoTitle(t, motoN) == <<"Viaggio ", ToString(t), " (", ToString(motoN), " moto)">>

TitleOf(inp, t) ==
    IF Trim(inp.destinazione) # <<>> THEN Trim(inp.destinazione)
    ELSE AutoTitle(t, inp.motoN)

\* The item saveToHistory builds from the values of the current render
MakeItem(id, inp, m, t) ==
    [id |-> id, title |-> TitleOf(inp, t), timestamp |-> t,
     inputs |-> inp, result |-> ResultOf(m)]

\* The new item put at the end of the list
PrependAtEnd(item, h) == h \o <<item>>

Prepend(item, h) == <<item>> \o h

\* A filter with the test inverted
RemoveAllButId(h, id) == SelectSeq(h, LAMBDA x : x.id = id)

RemoveId(h, id) == SelectSeq(h, LAMBDA x : x.id # id)

Ids(h) == {h[i].id : i \in 1..Len(h)}

\* history.find((x) => x.id === id): index of the first match, 0 if none
Find(h, id) ==
    IF id \in Ids(h) THEN CHOOSE i \in 1..Len(h) :
                             /\ h[i].id = id
                             /\ \A j \in 1..(i - 1) : h[j].id # id
    ELSE 0

---------------------------------------------------------------------------
(* Values the handlers are called with *)

\* What the form puts into a field while the history is exercised (the
\* other fields keep their initial values)
FormValues ==
    [destinazione |-> {<<>>, <<" ", "P", "u", " ">>},
     cTrasporto |-> {0, 1200}]

\* Lead times (departure day, the booking day being day 0) around every
\* boundary of leadTimeRules
LeadDays == {-1, 0, 14, 15, 30, 31, 45, 90, 91, 9999, 10000}

\* What the form can put into a field while the pricing is exercised
PricingValues ==
    [destinazione |-> {<<>>},
     durataGiorni |-> {7},
     stagione |-> {"bassa", "alta"},
     motoN |-> {-1, 0, 1, 6, 7, 8, 12, 13},
     dataPrenotazione |-> {NoDate, BadDate, IsoDate(0)},
     dataPartenza |-> {NoDate, BadDate} \cup {IsoDate(d) : d \in LeadDays},
     cTrasporto |-> {0, 1000},
     cAlloggio |-> {0, 2000},
     cGuide |-> {0, 500},
     cAltri |-> {0, 100},
     margineTarget |-> {R(0), marginTarget}]

\* An entry a previous session saved and persisted
OldInputs ==
    [InitialInputs EXCEPT !.destinazione = <<"P", "u">>, !.cTrasporto = 1200]

OldItem == MakeItem(0, OldInputs, Render(OldInputs, EmptyMemo), 0)

\* What localStorage can hold under STORAGE_KEY when the page opens
InitialStorage ==
    { Absent, EmptyText, Malformed,
      JsonText(JsNull), JsonText(JsObject), JsonText(JsOtherArray),
      Stringify(JsArray(<<OldItem>>)) }

\* Effects run on mount: once, or twice under React.StrictMode
MountEffects ==
    { <<"load", "persist">>, <<"load", "persist", "load", "persist">> }

AllIds == 0..MaxSaves

Op(name, id) == [name |-> name, id |-> id]

\* Bookkeeping of `saved`
Record(f, id, inp) == [i \in DOMAIN f \cup {id} |-> IF i = id THEN inp ELSE f[i]]
Forget(f, ids) == [i \in DOMAIN f \ ids |-> f[i]]

---------------------------------------------------------------------------
(* Mount: the first render and its effects *)

Init ==
    /\ inputs = InitialInputs
    /\ memo = Render(InitialInputs, EmptyMemo)
    /\ history = JsArray(<<>>)
    /\ pending = <<>>
    /\ effects \in MountEffects
    /\ phase = "mounting"
    /\ storage \in InitialStorage
    /\ storage0 = storage
    /\ now = 0
    /\ nextId = 0
    /\ op = Op("mount", 0)
    /\ saved = <<>>

\* The load effect (l.75-80): the setHistory updates it leaves queued
LoadEffect(raw, queue) ==
    IF Truthy(raw) /\ Parse(raw).ok
    THEN Append(queue, Parse(raw).value)
    ELSE queue

\* A persist effect that runs on mount only
PersistOnMountOnly(h) == IF phase = "mounting" THEN Stringify(h) ELSE storage

\* The persist effect (l.82-84): the new stored text
PersistEffect(h) == Stringify(h)

RunLoadEffect ==
    /\ phase = "mounting"
    /\ effects # <<>>
    /\ Head(effects) = "load"
    /\ pending' = LoadEffect(storage, pending)
    /\ effects' = Tail(effects)
    /\ UNCHANGED <<inputs, memo, history, phase, storage, now, nextId, op,
                   storage0, saved>>

RunPersistEffect ==
    /\ phase = "mounting"
    /\ effects # <<>>
    /\ Head(effects) = "persist"
    /\ storage' = PersistEffect(history)
    /\ effects' = Tail(effects)
    /\ UNCHANGED <<inputs, memo, history, pending, phase, now, nextId, op,
                   storage0, saved>>

\* The queued setHistory updates are applied (the last one wins) and the
\* component renders again; the render throws unless history is a list of
\* items (l.270), and React then unmounts the tree
Rerender ==
    /\ phase = "mounting"
    /\ effects = <<>>
    /\ pending # <<>>
    /\ history' = pending[Len(pending)]
    /\ pending' = <<>>
    /\ IF IsHistoryList(history')
       THEN /\ effects' = <<"persist">>
            /\ phase' = phase
       ELSE /\ effects' = <<>>
            /\ phase' = "crashed"
    /\ UNCHANGED <<inputs, memo, storage, now, nextId, op, storage0, saved>>

FinishMount ==
    /\ phase = "mounting"
    /\ effects = <<>>
    /\ pending = <<>>
    /\ phase' = "ready"
    /\ UNCHANGED <<inputs, memo, history, pending, effects, storage, now,
                   nextId, op, storage0, saved>>

---------------------------------------------------------------------------
(* Event handlers; each runs to completion with its re-render and effects *)

\* onChange of a form field (l.190-229)
EditField(f, v) ==
    /\ phase = "ready"
    /\ inputs' = [inputs EXCEPT ![f] = v]
    /\ memo' = Render(inputs', memo)
    /\ op' = Op("edit", 0)
    /\ storage0' = Absent
    /\ UNCHANGED <<history, pending, effects, phase, storage, now, nextId, saved>>

saveToHistory ==
    /\ phase = "ready"
    /\ nextId < MaxSaves
    /\ \E t \in now..MaxClock :
        /\ now' = t
        /\ history' = JsArray(Prepend(MakeItem(nextId + 1, inputs, memo, t),
                                      history.items))
    /\ storage' = PersistEffect(history')
    /\ nextId' = nextId + 1
    /\ saved' = Record(saved, nextId + 1, inputs)
    /\ op' = Op("save", nextId + 1)
    /\ storage0' = Absent
    /\ UNCHANGED <<inputs, memo, pending, effects, phase>>

\* A load that takes the newest item whatever the id
LoadedInputsNewest(h, id, cur) == IF h # <<>> THEN h[1].inputs ELSE cur

\* The inputs after loadFromHistory(id)
LoadedInputs(h, id, cur) ==
    IF Find(h, id) # 0 THEN h[Find(h, id)].inputs ELSE cur

loadFromHistory(id) ==
    /\ phase = "ready"
    /\ inputs' = LoadedInputs(history.items, id, inputs)
    /\ memo' = Render(inputs', memo)
    /\ op' = Op("load", id)
    /\ storage0' = Absent
    /\ UNCHANGED <<history, pending, effects, phase, storage, now, nextId, saved>>

deleteFromHistory(id) ==
    /\ phase = "ready"
    /\ history' = JsArray(RemoveId(history.items, id))
    /\ storage' = PersistEffect(history')
    /\ op' = Op("delete", id)
    /\ saved' = Forget(saved, {id})
    /\ storage0' = Absent
    /\ UNCHANGED <<inputs, memo, pending, effects, phase, now, nextId>>

clearHistory ==
    /\ phase = "ready"
    /\ \E confirmed \in BOOLEAN :
        IF confirmed
        THEN /\ history' = JsArray(<<>>)
             /\ storage' = PersistEffect(history')
             /\ op' = Op("clear", 1)
             /\ saved' = Forget(saved, DOMAIN saved)
        ELSE /\ op' = Op("clear", 0)
             /\ UNCHANGED <<history, storage, saved>>
    /\ storage0' = Absent
    /\ UNCHANGED <<inputs, memo, pending, effects, phase, now, nextId>>

Next ==
    \/ RunLoadEffect
    \/ RunPersistEffect
    \/ Rerender
    \/ FinishMount
    \/ \E f \in DOMAIN FormValues : \E v \in FormValues[f] : EditField(f, v)
    \/ saveToHistory
    \/ \E id \in AllIds : loadFromHistory(id)
    \/ \E id \in AllIds : deleteFromHistory(id)
    \/ clearHistory

Spec == Init /\ [][Next]_vars

---------------------------------------------------------------------------
(* The pricing engine alone: the page opened on an empty storage, then any *)
(* edits of the form                                                       *)

PricingInit ==
    /\ inputs = InitialInputs
    /\ memo = Render(InitialInputs, EmptyMemo)
    /\ history = JsArray(<<>>)
    /\ pending = <<>>
    /\ effects = <<>>
    /\ phase = "ready"
    /\ storage = PersistEffect(history)
    /\ storage0 = Absent
    /\ now = 0
    /\ nextId = 0
    /\ op = Op("mount", 0)
    /\ saved = <<>>

PricingNext ==
    \E f \in DOMAIN PricingValues : \E v \in PricingValues[f] : EditField(f, v)

PricingSpec == PricingInit /\ [][PricingNext]_vars

---------------------------------------------------------------------------
(* Properties *)

Items == history.items

\* The pricing formulas applied afresh to a set of inputs
PricingEngine(inp) == ResultOf(Render(inp, EmptyMemo))

\* C1: in every reachable state every item of the history has a result
\* equal to what the pricing formulas give for that item's stored inputs.
C1_ResultMatchesInputs ==
    IsHistoryList(history) =>
        \A i \in 1..Len(Items) : Items[i].result = PricingEngine(Items[i].inputs)

C1_Witness ==
    /\ phase = "ready"
    /\ Len(Items) >= 2
    /\ Items[1].inputs # Items[2].inputs
    /\ Items[1].result # Items[2].result
    /\ Items[1].result.prezzoConsPP # R(0)
    /\ Items[1].id >= 1

\* C2: once the page is up, after every save, delete and clear the text
\* stored under the key is the serialisation of the in-memory history and
\* parses back to it.
C2_StorageMatchesHistory ==
    phase = "ready" =>
        /\ storage = Stringify(history)
        /\ Parse(storage).ok
        /\ Parse(storage).value = history

C2_Witness ==
    /\ phase = "ready"
    /\ op.name = "delete"
    /\ op.id \in 1..nextId
    /\ Len(Items) >= 1
    /\ storage.kind = "json"
    /\ storage.doc.items = Items

\* The stored text is not the serialisation of a list of history items
NotAHistoryText(raw) == ~(raw.kind = "json" /\ IsHistoryList(raw.doc))

\* C3: whatever stored value fails to deserialise into a history list, the
\* page starts, the history is a list of items, and it is the empty list
\* when the start-up has finished.
C3_CorruptStorageRecovered ==
    NotAHistoryText(storage0) =>
        /\ phase # "crashed"
        /\ IsHistoryList(history)
        /\ (phase = "ready" /\ op.name = "mount" => history = JsArray(<<>>))

\* C4: the history is ordered newest first: by creation (ids are handed out
\* in creation order) and by timestamp, descending.
C4_NewestFirst ==
    IsHistoryList(history) =>
        \A i, j \in 1..Len(Items) :
            i < j => /\ Items[i].id > Items[j].id
                     /\ Items[i].timestamp >= Items[j].timestamp

C4_Witness ==
    /\ phase = "ready"
    /\ Len(Items) >= 2
    /\ Items[1].timestamp > Items[Len(Items)].timestamp
    /\ op.name = "save"

\* C5: loadFromHistory(id) of an item saved earlier sets the current inputs
\* to the inputs that were current at that save, whatever edits and saves
\* came in between, and leaves the history as it was.
C5_SaveLoadRoundTrip ==
    [][ (op'.name = "load" /\ op'.id \in DOMAIN saved) =>
            /\ inputs' = saved[op'.id]
            /\ history' = history ]_vars

C5_Witness ==
    /\ op = Op("load", 1)
    /\ nextId >= 2
    /\ 1 \in DOMAIN saved
    /\ inputs = saved[1]
    /\ Items[1].id = 2
    /\ Items[1].inputs # inputs

\* C6: deleteFromHistory(id) leaves the inputs alone and raises nothing;
\* with an id that is not in the history it leaves the list as it is, with
\* an id that is in it it removes exactly that item and keeps the others
\* in their order.
C6_DeleteFrame ==
    [][ op'.name = "delete" =>
            LET h == history.items
                h2 == history'.items
                id == op'.id
            IN  /\ inputs' = inputs
                /\ phase' = "ready"
                /\ IsHistoryList(history')
                /\ (id \notin Ids(h) => h2 = h)
                /\ (id \in Ids(h) =>
                        \E k \in 1..Len(h) :
                            /\ h[k].id = id
                            /\ h2 = SubSeq(h, 1, k - 1) \o SubSeq(h, k + 1, Len(h))) ]_vars

C6_Witness ==
    /\ op.name = "delete"
    /\ op.id > nextId
    /\ Len(Items) >= 2

\* C7: when the lead time is indeterminate the recommended price is
\* prezzoBasePP * seasonFactor * groupFactor (lead-time factor 1.0).
C7_NeutralLeadFactor ==
    memo.leadTime.val.null =>
        memo.prezzoConsPP.val =
            Mul(Mul(memo.prezzoBasePP.val, seasonFactor[inputs.stagione]),
                pickFactorByGroup(inputs.motoN))

\* The table of the lead-time factor: <=14 1.10, <=30 1.05, <=90 1.00,
\* above 0.97
LeadTable(days) ==
    IF days <= 14 THEN <<11, 10>>
    ELSE IF days <= 30 THEN <<21, 20>>
    ELSE IF days <= 90 THEN R(1)
    ELSE <<97, 100>>

\* C8: for every number of lead-time days the lead-time factor is the one
\* of the table, 0.97 for every value above 90.
C8_LeadTimeTable ==
    ~memo.leadTime.val.null =>
        pickFactorByLeadTime(memo.leadTime.val) = LeadTable(memo.leadTime.val.n)

\* C9: prezzoBasePP is 0 whenever motoN <= 0; otherwise it is
\* costsTotal * (1 + margineTarget) / motoN; no division by zero happens
\* (the value is always finite).
C9_BasePrice ==
    LET m == inputs.motoN
        base == memo.prezzoBasePP.val
    IN  /\ IsFinite(base)
        /\ (m <= 0 => base = R(0))
        /\ (m > 0 => Mul(base, R(m)) =
                        Mul(memo.costsTotal.val, Add(R(1), inputs.margineTarget)))

C9_Witness ==
    /\ inputs.motoN = 0
    /\ memo.costsTotal.val # R(0)
    /\ memo.prezzoBasePP.val = R(0)

\* C10: if the storage holds the serialisation of a list L when the page
\* opens, then when the start-up has finished the history is L and the
\* stored list is L.
C10_StartupKeepsHistory ==
    (phase = "ready" /\ op.name = "mount" /\ ~NotAHistoryText(storage0)) =>
        /\ history = storage0.doc
        /\ storage = storage0

====
